---- MODULE Spec2Model ----
(***************************************************************************)
(* Model of web.py: the asteroid lookup (find_mock_asteroid_data), the     *)
(* impact energy calculator (calculate_impact_energy) and the Flask route  *)
(* that composes them (calculate_impact_route).                            *)
(*                                                                         *)
(* Python values are represented as follows.                               *)
(*   str    a sequence of one-character strings, <<"a", "b">>              *)
(*   float  a decimal floating-point number [m, e] of value m * 10^e with  *)
(*          SignificantDigits digits in m; every operation rounds its      *)
(*          exact result to the nearest such number, ties to even, as an   *)
(*          IEEE double operation does at 53 bits.  There is no inf, nan   *)
(*          or overflow: the exponent is unbounded                         *)
(*   dict   a function whose domain is the set of keys                     *)
(*   list   a sequence                                                     *)
(*   None, str, int and float values stored in a dict or passed to a call  *)
(*   are tagged (PyNone, PyStr(s), PyInt(n), PyFloat(x)) so that they can  *)
(*   be told apart                                                         *)
(***************************************************************************)
EXTENDS Integers, Sequences, FiniteSets, TLC

(***************************************************************************)
(* Floats.                                                                 *)
(***************************************************************************)
\* digits of a float's significand
SignificantDigits == 3

Abs(n) == IF n < 0 THEN -n ELSE n
Sign(n) == IF n < 0 THEN -1 ELSE IF n > 0 THEN 1 ELSE 0

\* n / d rounded to the nearest integer, ties to the even one, for n >= 0, d > 0
RoundDiv(n, d) ==
    IF 2 * (n % d) > d \/ (2 * (n % d) = d /\ (n \div d) % 2 = 1)
    THEN (n \div d) + 1
    ELSE n \div d

\* the number of decimal digits of n, for 1 <= n < 10^10
DecimalDigits(n) == CHOOSE k \in 1..10 : 10 ^ (k - 1) <= n /\ (k = 10 \/ n < 10 ^ k)

FZero == [m |-> 0, e |-> 0]

\* the float of significand q or, when rounding carried q to 10^p, of 10^(p-1)
Carried(sign, q, e, p) ==
    IF q = 10 ^ p THEN [m |-> sign * 10 ^ (p - 1), e |-> e + 1] ELSE [m |-> sign * q, e |-> e]

\* the float nearest to n * 10^e, n having k digits
NearestOf(n, e, k, p) ==
    IF k <= p THEN [m |-> n * 10 ^ (p - k), e |-> e - (p - k)]
    ELSE Carried(Sign(n), RoundDiv(Abs(n), 10 ^ (k - p)), e + (k - p), p)

\* the float nearest to n * 10^e
Nearest(n, e) ==
    IF n = 0 THEN FZero ELSE NearestOf(n, e, DecimalDigits(Abs(n)), SignificantDigits)

\* float(n) for an int n
FromInt(n) == Nearest(n, 0)

\* x * y
FMul(x, y) == Nearest(x.m * y.m, x.e + y.e)

\* x / y from the quotient of the significands scaled by 10^shift
Quotient(x, y, shift) ==
    Nearest(Sign(x.m) * Sign(y.m) * RoundDiv(Abs(x.m) * 10 ^ shift, Abs(y.m)),
            x.e - y.e - shift)

\* x / y for y # 0: the quotient of the significands to SignificantDigits
\* digits, rounded by the remainder
FDiv(x, y) ==
    IF x.m = 0 THEN FZero
    ELSE IF Abs(x.m) >= Abs(y.m) THEN Quotient(x, y, SignificantDigits - 1)
    ELSE Quotient(x, y, SignificantDigits)

\* x + y: exact when the exponents are close enough for the sum to matter,
\* else the operand of larger magnitude
RECURSIVE FAdd(_, _)
FAdd(x, y) ==
    IF x.m = 0 THEN y
    ELSE IF y.m = 0 THEN x
    ELSE IF x.e < y.e THEN FAdd(y, x)
    ELSE IF x.e - y.e > SignificantDigits + 1 THEN x
    ELSE Nearest(x.m * 10 ^ (x.e - y.e) + y.m, y.e)

RECURSIVE FPow(_, _)
\* x ** n for a small int n >= 1, by repeated multiplication
FPow(x, n) == IF n = 1 THEN x ELSE FMul(FPow(x, n - 1), x)

\* x < y
FLess(x, y) ==
    IF x.m = 0 \/ y.m = 0 \/ Sign(x.m) # Sign(y.m) THEN x.m < y.m
    ELSE IF x.m > 0 THEN x.e < y.e \/ (x.e = y.e /\ x.m < y.m)
    ELSE x.e > y.e \/ (x.e = y.e /\ x.m < y.m)

\* x > y
FGreater(x, y) == FLess(y, x)

\* x rounded to k <= SignificantDigits significant digits
RoundSignificant(x, k) ==
    Nearest(Sign(x.m) * RoundDiv(Abs(x.m), 10 ^ (SignificantDigits - k)),
            x.e + (SignificantDigits - k))

\* x rounded to a multiple of 10^(-places)
RoundPlaces(x, places) ==
    IF x.e + places >= 0 THEN x
    ELSE IF -(x.e + places) > SignificantDigits THEN FZero
    ELSE Nearest(Sign(x.m) * RoundDiv(Abs(x.m), 10 ^ (-(x.e + places))), -places)

(***************************************************************************)
(* Python str: sequences of one-character strings.                         *)
(***************************************************************************)
Whitespace == {" ", "\t"}

Lower == <<"a", "b", "c", "d", "e", "f", "g", "h", "i", "j", "k", "l", "m",
           "n", "o", "p", "q", "r", "s", "t", "u", "v", "w", "x", "y", "z">>
Upper == <<"A", "B", "C", "D", "E", "F", "G", "H", "I", "J", "K", "L", "M",
           "N", "O", "P", "Q", "R", "S", "T", "U", "V", "W", "X", "Y", "Z">>

\* str.upper() on one character
upper_char(c) ==
    IF \E i \in 1..Len(Lower) : Lower[i] = c
    THEN Upper[CHOOSE i \in 1..Len(Lower) : Lower[i] = c]
    ELSE c

\* str.upper()
upper(s) == [i \in 1..Len(s) |-> upper_char(s[i])]

RECURSIVE lstrip(_)
lstrip(s) == IF s # << >> /\ Head(s) \in Whitespace THEN lstrip(Tail(s)) ELSE s

RECURSIVE rstrip(_)
rstrip(s) ==
    IF s # << >> /\ s[Len(s)] \in Whitespace THEN rstrip(SubSeq(s, 1, Len(s) - 1)) ELSE s

\* str.strip()
strip(s) == lstrip(rstrip(s))

RECURSIVE replace(_, _, _)
\* str.replace(old, new) for a one-character old and a new of any length
replace(s, old, new) ==
    IF s = << >> THEN << >>
    ELSE (IF Head(s) = old THEN new ELSE <<Head(s)>>) \o replace(Tail(s), old, new)

(***************************************************************************)
(* Values stored in dicts and passed in forms, outcomes of calls.          *)
(***************************************************************************)
PyNone == [t |-> "NoneType"]
PyStr(s) == [t |-> "str", v |-> s]
PyFloat(x) == [t |-> "float", v |-> x]
PyInt(n) == [t |-> "int", v |-> n]

Return(v) == [kind |-> "return", value |-> v]
Raise(type, what) == [kind |-> "raise", exc |-> [type |-> type, what |-> what]]

(***************************************************************************)
(* float(v).  A str is stripped of surrounding whitespace and read as      *)
(* [sign] digits [. digits] with at least one digit and at most nine; any  *)
(* other content is a ValueError.  Exponents, inf, nan and digit-group     *)
(* underscores are not read: the inputs of the model contain none.         *)
(***************************************************************************)
Digits == <<"0", "1", "2", "3", "4", "5", "6", "7", "8", "9">>

IsDigit(c) == \E i \in 1..10 : Digits[i] = c
DigitValue(c) == (CHOOSE i \in 1..10 : Digits[i] = c) - 1

RECURSIVE FromDecimal(_)
\* the natural written by a sequence of decimal digits
FromDecimal(ds) ==
    IF ds = << >> THEN 0
    ELSE 10 * FromDecimal(SubSeq(ds, 1, Len(ds) - 1)) + DigitValue(ds[Len(ds)])

\* the number written by body, the str without its surrounding whitespace
\* and its sign, or the ValueError of float(s)
float_literal(s, negative, body) ==
    IF /\ \A i \in 1..Len(body) : IsDigit(body[i]) \/ body[i] = "."
       /\ Cardinality({i \in 1..Len(body) : body[i] = "."}) <= 1
       /\ \E i \in 1..Len(body) : IsDigit(body[i])
    THEN Return(Nearest((IF negative THEN -1 ELSE 1) * FromDecimal(SelectSeq(body, IsDigit)),
                        -Cardinality({i \in 1..Len(body) :
                                          \E j \in 1..(i - 1) : body[j] = "."})))
    ELSE Raise("ValueError", PyStr(s))

\* float(s) for the str s that strips to t
float_stripped(s, t) ==
    IF t # << >> /\ Head(t) \in {"+", "-"}
    THEN float_literal(s, Head(t) = "-", Tail(t))
    ELSE float_literal(s, FALSE, t)

float_str(s) == float_stripped(s, strip(s))

float(v) ==
    IF v.t = "float" THEN Return(v.v)
    ELSE IF v.t = "int" THEN Return(FromInt(v.v))
    ELSE IF v.t = "str" THEN float_str(v.v)
    ELSE Raise("TypeError", v)

(***************************************************************************)
(* Format specifications of the report's f-strings.  A formatted number is *)
(* represented by the number its digits show (the value rounded as the     *)
(* format rounds it), its sign and the format.                             *)
(***************************************************************************)
\* f"{x:.<places>f}<suffix>"
FormatFixed(x, places, suffix) ==
    [neg |-> x.m < 0, shown |-> RoundPlaces(x, places), places |-> places, suffix |-> suffix]

\* f"{x:.2e}<suffix>": three significant digits and a decimal exponent
FormatSci(x, suffix) ==
    [neg |-> x.m < 0, shown |-> RoundSignificant(x, 3), significant |-> 3, suffix |-> suffix]

\* f"{x:,}<suffix>": the digits of an int, or the shortest digits that read
\* back as the float, grouped by thousands; it loses nothing of x, and is
\* represented by x itself
FormatGrouped(x, suffix) == [grouped |-> x, suffix |-> suffix]

(***************************************************************************)
(* Constants and mock data of web.py.                                      *)
(***************************************************************************)
\* the value of a Python number (int or float) in float arithmetic
Number(d) == IF d.t = "int" THEN FromInt(d.v) ELSE d.v

DENSITIES ==
    ("C-type (Carbonaceous)" :> PyInt(1300)) @@ ("S-type (Stony)" :> PyInt(2700))
        @@ ("M-type (Metallic)" :> PyInt(5000)) @@ ("Rocky" :> PyInt(3000))

DEFAULT_DENSITY == DENSITIES["Rocky"]

\* 4.184e15
JOULES_PER_MEGATON == Nearest(4184, 12)

\* math.pi
math_pi == Nearest(314159265, -8)

MockName == <<"9", "9", "9", "4", "2", " ", "A", "p", "o", "p", "h", "i", "s">>
MockId == <<"2", "0", "0", "0", "0", "4", "2">>

\* one element of close_approach_data
CloseApproach(km_s, km) ==
    [relative_velocity |-> [kilometers_per_second |-> km_s],
     miss_distance |-> [kilometers |-> km]]

\* the dict literal bound to MOCK_ASTEROID_DATA when the module is loaded
MockAsteroidData ==
    [name |-> PyStr(MockName),
     neo_reference_id |-> PyStr(MockId),
     is_potentially_hazardous_asteroid |-> TRUE,
     estimated_diameter |->
         [meters |-> [estimated_diameter_min |-> PyStr(<<"3", "2", "0", ".", "0">>),
                      estimated_diameter_max |-> PyStr(<<"4", "0", "0", ".", "0">>)]],
     close_approach_data |->
         <<CloseApproach(PyStr(<<"7", ".", "4", "2">>),
                         PyStr(<<"3", "1", "0", "0", "0", ".", "0">>))>>]

(***************************************************************************)
(* The state: the module global MOCK_ASTEROID_DATA, the last completed     *)
(* call with its arguments and its outcome, and the shapes of the failure  *)
(* values handed to callers so far.                                        *)
(***************************************************************************)
VARIABLES MOCK_ASTEROID_DATA, call, failures

vars == <<MOCK_ASTEROID_DATA, call, failures>>

(***************************************************************************)
(* find_mock_asteroid_data                                                 *)
(***************************************************************************)
\* line 40: asteroid_name.strip().upper().replace('(', '').replace(')', '').replace('-', ' ')
normalize(asteroid_name) ==
    replace(replace(replace(upper(strip(asteroid_name)), "(", << >>), ")", << >>),
            "-", <<" ">>)

\* line 41
mock_name_normalized == upper(MOCK_ASTEROID_DATA.name.v)

\* line 42
mock_id == MOCK_ASTEROID_DATA.neo_reference_id.v

\* line 44 without the comparison against the catalog id
name_matches_display_name(normalized_name) == normalized_name = mock_name_normalized

\* line 44
name_matches(normalized_name) ==
    normalized_name = mock_name_normalized \/ normalized_name = mock_id

\* asteroid_name is a tagged value: None has no strip()
find_mock_asteroid_data(asteroid_name) ==
    IF asteroid_name.t # "str" THEN Raise("AttributeError", asteroid_name)
    ELSE IF name_matches(normalize(asteroid_name.v)) THEN Return(MOCK_ASTEROID_DATA)
    ELSE Return(PyNone)

(***************************************************************************)
(* calculate_impact_energy                                                 *)
(***************************************************************************)
Devastating == "Devastating impact event, comparable to large scale nuclear war scenarios. Mitigation is critical."
Major == "Major regional impact event, capable of causing widespread destruction and global climate effects."
Powerful == "Powerful impact, capable of leveling a major metropolitan area (like the Tunguska event)."
Smaller == "Smaller impact, likely resulting in localized damage or an atmospheric explosion (airburst)."

\* lines 66-73 with the labels of the two upper bands exchanged
interpretation_exchanged(energy_megatons) ==
    IF FGreater(energy_megatons, FromInt(100)) THEN Major
    ELSE IF FGreater(energy_megatons, FromInt(10)) THEN Devastating
    ELSE IF FGreater(energy_megatons, FromInt(1)) THEN Powerful
    ELSE Smaller

\* lines 66-73 with >= in the place of >
interpretation_inclusive(energy_megatons) ==
    IF ~FLess(energy_megatons, FromInt(100)) THEN Devastating
    ELSE IF ~FLess(energy_megatons, FromInt(10)) THEN Major
    ELSE IF ~FLess(energy_megatons, FromInt(1)) THEN Powerful
    ELSE Smaller

\* lines 66-73
interpretation(energy_megatons) ==
    IF FGreater(energy_megatons, FromInt(100)) THEN Devastating
    ELSE IF FGreater(energy_megatons, FromInt(10)) THEN Major
    ELSE IF FGreater(energy_megatons, FromInt(1)) THEN Powerful
    ELSE Smaller

\* An expression is evaluated to an outcome, and an operation applied to the
\* outcome of its operand raises what the operand raised.

\* d[key]
Subscript(d, key) ==
    IF d.kind = "raise" THEN d
    ELSE IF key \in DOMAIN d.value THEN Return(d.value[key])
    ELSE Raise("KeyError", key)

\* d.get(key, default)
Get(d, key, default) == IF key \in DOMAIN d THEN d[key] ELSE default

\* line 58 with [0] in the place of [-1]
first_close_approach(close_approach_data) ==
    IF close_approach_data.kind = "raise" THEN close_approach_data
    ELSE IF close_approach_data.value = << >>
    THEN Raise("IndexError", "list index out of range")
    ELSE Return(close_approach_data.value[1])

\* line 58: close_approach_data[-1]
last_close_approach(close_approach_data) ==
    IF close_approach_data.kind = "raise" THEN close_approach_data
    ELSE IF close_approach_data.value = << >>
    THEN Raise("IndexError", "list index out of range")
    ELSE Return(close_approach_data.value[Len(close_approach_data.value)])

\* float(v) of an operand that may have raised
Float(v) == IF v.kind = "raise" THEN v ELSE float(v.value)

\* line 52
estimated_diameter(asteroid_data) ==
    Subscript(Subscript(Return(asteroid_data), "estimated_diameter"), "meters")

\* line 53
min_d(asteroid_data) ==
    Float(Subscript(estimated_diameter(asteroid_data), "estimated_diameter_min"))

\* line 54
max_d(asteroid_data) ==
    Float(Subscript(estimated_diameter(asteroid_data), "estimated_diameter_max"))

\* line 55, of the values of min_d and max_d
avg_diameter(min, max) == FDiv(FAdd(min, max), FromInt(2))

\* line 56
avg_radius(diameter) == FDiv(diameter, FromInt(2))

\* line 58
close_approach(asteroid_data) ==
    last_close_approach(Subscript(Return(asteroid_data), "close_approach_data"))

\* line 59
relative_velocity_km_s(asteroid_data) ==
    Float(Subscript(Subscript(close_approach(asteroid_data), "relative_velocity"),
                    "kilometers_per_second"))

\* line 60
V_m_s(km_s) == FMul(km_s, FromInt(1000))

\* line 62
mass_kg(density, radius) ==
    FMul(FMul(FMul(Number(density), FDiv(FromInt(4), FromInt(3))), math_pi), FPow(radius, 3))

\* line 63
kinetic_energy_joules(mass, V) == FMul(FMul(Nearest(5, -1), mass), FPow(V, 2))

\* line 64
energy_megatons(joules) == FDiv(joules, JOULES_PER_MEGATON)

\* lines 62-64 together: the energy of a body of a density, an average
\* diameter and a velocity in km/s
energy(density, diameter, km_s) ==
    energy_megatons(kinetic_energy_joules(mass_kg(density, avg_radius(diameter)), V_m_s(km_s)))

\* lines 75-85
report(asteroid_data, density, diameter, km_s) ==
    [name |-> Get(asteroid_data, "name", PyStr(<<"N", "/", "A">>)),
     average_diameter_m |-> FormatFixed(diameter, 2, " meters"),
     relative_velocity_km_s |-> FormatFixed(km_s, 3, " km/s"),
     assumed_density_kg_m3 |-> FormatGrouped(density, " kg/m3"),
     calculated_mass_kg |-> FormatSci(mass_kg(density, avg_radius(diameter)), " kg"),
     kinetic_energy_joules |->
         FormatSci(kinetic_energy_joules(mass_kg(density, avg_radius(diameter)), V_m_s(km_s)),
                   ""),
     impact_energy_megatons_tnt |-> FormatSci(energy(density, diameter, km_s), " MT"),
     is_potentially_hazardous |->
         Get(asteroid_data, "is_potentially_hazardous_asteroid", FALSE),
     interpretation |-> interpretation(energy(density, diameter, km_s))]

\* lines 52-85 in the order of their evaluation: the first statement that
\* raises ends the body
statements(asteroid_data, density, min, max, km_s) ==
    IF min.kind = "raise" THEN min
    ELSE IF max.kind = "raise" THEN max
    ELSE IF km_s.kind = "raise" THEN km_s
    ELSE Return(report(asteroid_data, density, avg_diameter(min.value, max.value), km_s.value))

\* lines 51-85: the body of the try statement
try_body(asteroid_data, density) ==
    statements(asteroid_data, density, min_d(asteroid_data), max_d(asteroid_data),
               relative_velocity_km_s(asteroid_data))

\* line 87 catching only the faults of a missing key and of a malformed number
except_KeyError_ValueError(exc) == exc.type \in {"KeyError", "ValueError"}

\* line 87: except Exception
except_Exception(exc) == TRUE

\* line 88
error_value(exc) ==
    [error |-> [text |-> "An unexpected error occurred during calculation: ", e |-> exc]]

\* lines 87-88 applied to the outcome of the try body
except_clause(body) ==
    IF body.kind = "raise" /\ except_Exception(body.exc)
    THEN Return(error_value(body.exc))
    ELSE body

calculate_impact_energy(asteroid_data, density) ==
    except_clause(try_body(asteroid_data, density))

\* the argument object had line 58 read the entry with pop()
asteroid_data_popped(asteroid_data, density) ==
    IF "close_approach_data" \in DOMAIN asteroid_data /\ asteroid_data.close_approach_data # << >>
    THEN [asteroid_data EXCEPT !.close_approach_data =
              SubSeq(@, 1, Len(@) - 1)]
    ELSE asteroid_data

\* the argument object after the call: lines 52-83 only read it (subscripts
\* and .get), so it is as it was
asteroid_data_after(asteroid_data, density) == asteroid_data

(***************************************************************************)
(* calculate_impact_route                                                  *)
(***************************************************************************)
\* line 107 catching ValueError only
except_ValueError(exc) == exc.type = "ValueError"

\* line 107: except (TypeError, ValueError)
except_TypeError_ValueError(exc) == exc.type \in {"TypeError", "ValueError"}

\* lines 107-108 applied to the outcome of float(density_value)
density_fallback(parsed) ==
    IF parsed.kind = "return" THEN Return(PyFloat(parsed.value))
    ELSE IF except_TypeError_ValueError(parsed.exc) THEN Return(DEFAULT_DENSITY)
    ELSE parsed

\* lines 105-108
selected_density(density_value) == density_fallback(float(density_value))

\* jsonify(d): a 200 response whose JSON object has the keys of d
jsonify(d) == [status |-> "200 OK", json |-> d]

\* line 113
not_found_value(asteroid_name) ==
    [error |-> [text |-> <<"Asteroid '", "' not found. Try '99942 Apophis'.">>,
                asteroid_name |-> asteroid_name]]

\* lines 115-118; the result names the path taken besides the outcome
computed(results) ==
    IF results.kind = "raise" THEN [path |-> "fault", outcome |-> results]
    ELSE [path |-> "computed", outcome |-> Return(jsonify(results.value))]

\* lines 110-118; at line 112 None is falsy and the record, a dict with
\* keys, is not
respond(asteroid_name, density, asteroid_data) ==
    IF asteroid_data.kind = "raise" THEN [path |-> "fault", outcome |-> asteroid_data]
    ELSE IF asteroid_data.value = PyNone
    THEN [path |-> "not_found", outcome |-> Return(jsonify(not_found_value(asteroid_name)))]
    ELSE computed(calculate_impact_energy(asteroid_data.value, density))

\* lines 105-118
handle(asteroid_name, density) ==
    IF density.kind = "raise" THEN [path |-> "fault", outcome |-> density]
    ELSE respond(asteroid_name, density.value, find_mock_asteroid_data(asteroid_name))

\* lines 102-118; form is request.form, a dict of the fields that were sent
calculate_impact_route(form) ==
    handle(Get(form, "asteroid_name", PyNone),
           selected_density(Get(form, "density_value", PyNone)))

(***************************************************************************)
(* The state machine: one action per function a caller can invoke.         *)
(***************************************************************************)
NoCall == [op |-> "none"]

Init ==
    /\ MOCK_ASTEROID_DATA = MockAsteroidData
    /\ call = NoCall
    /\ failures = {}

\* the shape of a failure value: its kind and the keys of the dict
Failure(kind, d) == [kind |-> kind, keys |-> DOMAIN d]

FindMockAsteroidData(asteroid_name) ==
    /\ call' = [op |-> "find_mock_asteroid_data",
                asteroid_name |-> asteroid_name,
                outcome |-> find_mock_asteroid_data(asteroid_name)]
    /\ UNCHANGED <<MOCK_ASTEROID_DATA, failures>>

CalculateImpactEnergy(asteroid_data, density) ==
    /\ call' = [op |-> "calculate_impact_energy",
                asteroid_data |-> asteroid_data,
                density |-> density,
                outcome |-> calculate_impact_energy(asteroid_data, density),
                asteroid_data_after |-> asteroid_data_after(asteroid_data, density)]
    /\ failures' = IF call'.outcome.kind = "return" /\ "error" \in DOMAIN call'.outcome.value
                   THEN failures \cup {Failure("computation_error", call'.outcome.value)}
                   ELSE failures
    /\ UNCHANGED MOCK_ASTEROID_DATA

CalculateImpactRoute(form) ==
    /\ call' = [op |-> "calculate_impact_route",
                form |-> form,
                selected_density |-> selected_density(Get(form, "density_value", PyNone)),
                result |-> calculate_impact_route(form)]
    \* the record handed to the calculator is the global object itself
    /\ MOCK_ASTEROID_DATA' =
           IF call'.result.path = "computed"
           THEN asteroid_data_after(MOCK_ASTEROID_DATA, call'.selected_density.value)
           ELSE MOCK_ASTEROID_DATA
    /\ failures' =
           IF call'.result.path = "not_found"
           THEN failures \cup {Failure("not_found", call'.result.outcome.value.json)}
           ELSE IF /\ call'.result.path = "computed"
                   /\ "error" \in DOMAIN call'.result.outcome.value.json
           THEN failures \cup {Failure("computation_error", call'.result.outcome.value.json)}
           ELSE failures

(***************************************************************************)
(* Requests served one after another: any function, any input, any number  *)
(* of times.                                                               *)
(***************************************************************************)
\* a dict without one of its keys
Without(d, key) == [k \in DOMAIN d \ {key} |-> d[k]]

NameUpper == <<"9", "9", "9", "4", "2", " ", "A", "P", "O", "P", "H", "I", "S">>
NameLower == <<"9", "9", "9", "4", "2", " ", "a", "p", "o", "p", "h", "i", "s">>
NameParens == <<"(">> \o MockName \o <<")">>
NameHyphen == <<"9", "9", "9", "4", "2", "-", "a", "p", "o", "p", "h", "i", "s">>
NameUnknown == <<"n", "o", "n", "e", "x", "i", "s", "t", "e", "n", "t", "-", "x", "y", "z">>

\* request.form: the fields that were sent
Forms ==
    LET names == {PyStr(n) : n \in {<< >>, MockName, NameUpper, NameParens, MockId, NameUnknown}}
        values == {PyStr(v) : v \in {<< >>, <<"a", "b", "c">>, <<"3", "0", "0", "0">>,
                                     <<"2", "7", "0", "0", ".", "5">>, <<" ", "1", "3", "0", "0">>,
                                     <<"-", "5">>, <<"0">>}}
    IN  {[asteroid_name |-> n, density_value |-> v] : n \in names, v \in values}
        \cup {[asteroid_name |-> n] : n \in names}
        \cup {[density_value |-> v] : v \in values}
        \cup {<< >>}

SampleNames == {PyStr(n) : n \in {MockName, NameParens, NameHyphen, MockId, NameUnknown}}

SampleDensities == {DEFAULT_DENSITY, DENSITIES["M-type (Metallic)"], PyFloat(Nearest(27005, -1))}

Velocity742 == PyStr(<<"7", ".", "4", "2">>)
Velocity125 == PyStr(<<"1", "2", ".", "5">>)
VelocityZero == PyStr(<<"0">>)
Velocity5 == PyStr(<<"5">>)
Velocity15 == PyStr(<<"1", ".", "5">>)
Velocity05 == PyStr(<<"0", ".", "5">>)
NotNumeric == PyStr(<<"N", "/", "A">>)
Miss == PyStr(<<"3", "1", "0", "0", "0", ".", "0">>)

WithApproaches(rec, close_approach_data) ==
    [rec EXCEPT !.close_approach_data = close_approach_data]

\* a record with one close approach per velocity
WithVelocities(rec, velocities) ==
    WithApproaches(rec, [i \in 1..Len(velocities) |-> CloseApproach(velocities[i], Miss)])

WithMeters(rec, meters) == [rec EXCEPT !.estimated_diameter = [meters |-> meters]]

Meters(min, max) == [estimated_diameter_min |-> min, estimated_diameter_max |-> max]

SampleRecords ==
    {MockAsteroidData,
     WithVelocities(MockAsteroidData, << >>),
     WithVelocities(MockAsteroidData, <<Velocity125, Velocity742>>),
     WithMeters(MockAsteroidData, Meters(NotNumeric, PyStr(<<"4", "0", "0", ".", "0">>))),
     Without(MockAsteroidData, "estimated_diameter")}

Next ==
    \/ \E asteroid_name \in SampleNames : FindMockAsteroidData(asteroid_name)
    \/ \E asteroid_data \in SampleRecords, density \in SampleDensities :
           CalculateImpactEnergy(asteroid_data, density)
    \/ \E form \in Forms : CalculateImpactRoute(form)

Spec == Init /\ [][Next]_vars

(***************************************************************************)
(* find_mock_asteroid_data as a function of its argument: one call on an   *)
(* identifier drawn from the short strings over the characters the         *)
(* normalization treats differently and from the known names with          *)
(* decoration around them.                                                 *)
(***************************************************************************)
\* the longest identifier made of arbitrary characters
MaxIdLen == 3

\* the longest decoration before and after a known name
MaxPad == 1

\* the strings over an alphabet of at most n characters
Strings(alphabet, n) == UNION {[1..k -> alphabet] : k \in 0..n}

Cores == {MockName, NameUpper, NameLower, NameHyphen, MockId, NameUnknown,
          <<"2", "0", "0", "0", "0", "4", "3">>,
          <<"9", "9", "9", "4", "2", "(", ")", " ", "a", "p", "o", "p", "h", "i", "s">>,
          <<"9", "9", "9", "4", "2", " ", " ", "A", "p", "o", "p", "h", "i", "s">>}

Identifiers ==
    Strings({" ", "(", ")", "-", "a", "A"}, MaxIdLen)
        \cup {pre \o core \o post : pre \in Strings({" ", "(", ")", "-"}, MaxPad),
                                    core \in Cores,
                                    post \in Strings({" ", "(", ")", "-"}, MaxPad)}

Pending(args) == [op |-> "pending"] @@ args

InitLookup ==
    /\ MOCK_ASTEROID_DATA = MockAsteroidData
    /\ call \in {Pending([asteroid_name |-> PyStr(s)]) : s \in Identifiers}
    /\ failures = {}

NextLookup == call.op = "pending" /\ FindMockAsteroidData(call.asteroid_name)

SpecLookup == InitLookup /\ [][NextLookup]_vars

(***************************************************************************)
(* calculate_impact_energy as a function of its arguments: one call on a   *)
(* record and a density.  The records vary the diameter fields and the     *)
(* close approaches of the mock record, well-formed and malformed; the     *)
(* densities are the presets and, for records whose energy crosses a       *)
(* threshold of the ladder, every significand of a float.                  *)
(***************************************************************************)
\* the most close approaches of a record
MaxApproaches == 2

M320 == PyStr(<<"3", "2", "0", ".", "0">>)
M400 == PyStr(<<"4", "0", "0", ".", "0">>)

MeterFields ==
    {Meters(M320, M400),
     Meters(PyStr(<<"0">>), PyStr(<<"0">>)),
     Meters(PyStr(<<"-", "4", "0", "0", ".", "0">>), M320),
     Meters(NotNumeric, M400),
     Meters(M320, PyStr(<< >>)),
     Meters(PyNone, M400),
     [estimated_diameter_min |-> M320],
     [estimated_diameter_max |-> M400]}

ApproachEntries ==
    {CloseApproach(v, Miss) : v \in {Velocity742, Velocity125, VelocityZero, NotNumeric}}
        \cup {[miss_distance |-> [kilometers |-> Miss]],
              [relative_velocity |-> [kilometers_per_hour |-> Velocity742]]}

Records ==
    {WithApproaches(WithMeters(MockAsteroidData, meters), approaches) :
         meters \in MeterFields,
         approaches \in UNION {[1..k -> ApproachEntries] : k \in 0..MaxApproaches}}
        \cup {Without(MockAsteroidData, "estimated_diameter"),
              Without(MockAsteroidData, "close_approach_data"),
              Without(MockAsteroidData, "name"),
              [MockAsteroidData EXCEPT !.estimated_diameter = [feet |-> Meters(M320, M400)]]}

Presets == {DENSITIES[type] : type \in DOMAIN DENSITIES}

\* the mock record at the velocities that put 100, 10 and 1 megatons within
\* the energies of the densities between 1000 and 10000 kg/m3
ThresholdRecords ==
    {WithVelocities(MockAsteroidData, <<v>>) : v \in {Velocity5, Velocity15, Velocity05}}

\* every float from 1000 up to 10000
SweepDensities ==
    {PyFloat([m |-> m, e |-> 4 - SignificantDigits]) :
         m \in (10 ^ (SignificantDigits - 1))..(10 ^ SignificantDigits - 1)}

InitCalc ==
    /\ MOCK_ASTEROID_DATA = MockAsteroidData
    /\ call \in {Pending([asteroid_data |-> r, density |-> d]) :
                     r \in Records, d \in Presets \cup {PyFloat(Nearest(27005, -1))}}
                \cup {Pending([asteroid_data |-> r, density |-> d]) :
                          r \in ThresholdRecords, d \in SweepDensities}
    /\ failures = {}

NextCalc == call.op = "pending" /\ CalculateImpactEnergy(call.asteroid_data, call.density)

SpecCalc == InitCalc /\ [][NextCalc]_vars

(***************************************************************************)
(* Properties.                                                             *)
(***************************************************************************)
IsFind == call.op = "find_mock_asteroid_data"
IsCalc == call.op = "calculate_impact_energy"
IsRoute == call.op = "calculate_impact_route"

\* the call returned a report
Reported == IsCalc /\ call.outcome.kind = "return" /\ "error" \notin DOMAIN call.outcome.value

\* the normalization as section 4.1 words it, character by character: the
\* surrounding whitespace trimmed, the parentheses dropped, each hyphen a
\* space, each letter in upper case
Key(x) ==
    LET kept == SelectSeq(strip(x), LAMBDA c : c \notin {"(", ")"})
    IN  [i \in 1..Len(kept) |-> IF kept[i] = "-" THEN " " ELSE upper_char(kept[i])]

\* C1: normalizing a normalized identifier changes nothing:
\* normalize(normalize(x)) = normalize(x) for the identifier x of every lookup
C1_NormalizeIdempotent ==
    IsFind => normalize(normalize(call.asteroid_name.v)) = normalize(call.asteroid_name.v)

\* C2: no not-found response has the key set of a response made of a
\* computation error
C2_DistinctErrorShapes ==
    \A f, g \in failures :
        f.kind = "not_found" /\ g.kind = "computation_error" => f.keys # g.keys

\* C3: whatever fields the form holds, the route returns a response and
\* never ends in a fault that nothing handles
C3_NoUnhandledFault ==
    IsRoute => call.result.path # "fault" /\ call.result.outcome.kind = "return"

\* the records the calculator cannot compute from: a diameter or velocity
\* field missing or not numeric, or no close approach (the velocity is that of
\* the last close approach)
NotANumber(v) == v = PyNone \/ (v.t = "str" /\ \A i \in 1..Len(v.v) : ~IsDigit(v.v[i]))

Unreadable(d, key) == key \notin DOMAIN d \/ NotANumber(d[key])

Malformed(rec) ==
    \/ "estimated_diameter" \notin DOMAIN rec
    \/ "meters" \notin DOMAIN rec.estimated_diameter
    \/ Unreadable(rec.estimated_diameter.meters, "estimated_diameter_min")
    \/ Unreadable(rec.estimated_diameter.meters, "estimated_diameter_max")
    \/ "close_approach_data" \notin DOMAIN rec
    \/ rec.close_approach_data = << >>
    \/ LET last == rec.close_approach_data[Len(rec.close_approach_data)]
       IN  \/ "relative_velocity" \notin DOMAIN last
           \/ Unreadable(last.relative_velocity, "kilometers_per_second")

\* C4: the calculator lets no fault out, and on a malformed record it
\* returns a dict whose only key is 'error', carrying the fault
C4_StructuredError ==
    IsCalc =>
        /\ call.outcome.kind = "return"
        /\ Malformed(call.asteroid_data) =>
               /\ DOMAIN call.outcome.value = {"error"}
               /\ call.outcome.value.error.e.type
                      \in {"KeyError", "ValueError", "TypeError", "IndexError"}

C4_Witness ==
    /\ IsCalc
    /\ "close_approach_data" \in DOMAIN call.asteroid_data
    /\ call.asteroid_data.close_approach_data = << >>
    /\ DOMAIN call.outcome.value = {"error"}
    /\ call.outcome.value.error.e.type = "IndexError"

\* the energy in megatons the calculator computes from a well-formed record
EnergyOf(rec, density) ==
    energy(density,
           avg_diameter(min_d(rec).value, max_d(rec).value),
           relative_velocity_km_s(rec).value)

\* the band of an energy as the claim words it, from the bottom: exactly 1,
\* 10 or 100 megatons belong to the band below
Band(e) ==
    IF e = FromInt(1) \/ FLess(e, FromInt(1)) THEN 0
    ELSE IF e = FromInt(10) \/ FLess(e, FromInt(10)) THEN 1
    ELSE IF e = FromInt(100) \/ FLess(e, FromInt(100)) THEN 2
    ELSE 3

Labels == <<Smaller, Powerful, Major, Devastating>>

BandIndex(label) == CHOOSE i \in 1..4 : Labels[i] = label

\* C5: the label of every report is that of the one band its energy falls
\* in, a threshold itself falling in the band below it
C5_StrictThresholds ==
    Reported =>
        call.outcome.value.interpretation
            = Labels[Band(EnergyOf(call.asteroid_data, call.density)) + 1]

C5_Witness ==
    /\ Reported
    /\ EnergyOf(call.asteroid_data, call.density) = FromInt(10)
    /\ call.outcome.value.interpretation = Powerful

\* the float next above x
Above(x) ==
    IF x.m = 0 THEN [m |-> 10 ^ (SignificantDigits - 1), e |-> -SignificantDigits]
    ELSE Nearest(10 * x.m + 1, x.e - 1)

\* the densities a call's density is compared with
Probes(density) ==
    Presets \cup {PyFloat(Nearest(27005, -1)), PyFloat(Above(Number(density))),
                  PyFloat(FMul(Number(density), FromInt(2)))}

\* C6 as claimed: at a larger density the energy of the same record is
\* larger and its band is not lower
C6_StrictlyIncreasing ==
    Reported =>
        \A d2 \in Probes(call.density) :
            FLess(Number(call.density), Number(d2)) =>
                /\ FLess(EnergyOf(call.asteroid_data, call.density),
                         EnergyOf(call.asteroid_data, d2))
                /\ BandIndex(call.outcome.value.interpretation)
                       <= BandIndex(calculate_impact_energy(call.asteroid_data, d2)
                                        .value.interpretation)

\* the average diameter of a well-formed record is not negative
NotNegativeDiameter(rec) ==
    ~FLess(avg_diameter(min_d(rec).value, max_d(rec).value), FZero)

\* C6 as amended: for a record whose average diameter is not negative, at a
\* larger density the energy is not smaller and the band is not lower
C6_NonDecreasing ==
    Reported /\ NotNegativeDiameter(call.asteroid_data) =>
        \A d2 \in Probes(call.density) :
            FLess(Number(call.density), Number(d2)) =>
                /\ ~FLess(EnergyOf(call.asteroid_data, d2),
                          EnergyOf(call.asteroid_data, call.density))
                /\ BandIndex(call.outcome.value.interpretation)
                       <= BandIndex(calculate_impact_energy(call.asteroid_data, d2)
                                        .value.interpretation)

\* a larger density with the very same energy, which is not zero, and one
\* with a higher band
C6_Witness ==
    /\ Reported
    /\ NotNegativeDiameter(call.asteroid_data)
    /\ call.outcome.value.interpretation = Powerful
    /\ FLess(FZero, EnergyOf(call.asteroid_data, call.density))
    /\ EnergyOf(call.asteroid_data, PyFloat(Above(Number(call.density))))
           = EnergyOf(call.asteroid_data, call.density)
    /\ calculate_impact_energy(call.asteroid_data,
                               PyFloat(FMul(Number(call.density), FromInt(2))))
           .value.interpretation = Major

Resolved == IsFind /\ call.outcome = Return(MOCK_ASTEROID_DATA)

NotFound == IsFind /\ call.outcome = Return(PyNone)

\* C7 as claimed: an identifier resolves exactly when its key is the key of
\* the display name or the identifier itself is the catalog id
C7_IdentifierIsCatalogId ==
    IsFind =>
        (Resolved <=> \/ Key(call.asteroid_name.v) = Key(MOCK_ASTEROID_DATA.name.v)
                      \/ call.asteroid_name.v = MOCK_ASTEROID_DATA.neo_reference_id.v)

\* C7 as amended: an identifier resolves exactly when its key is the key of
\* the display name or is the catalog id, and is not found otherwise; the
\* four spellings of the claim resolve and 'nonexistent-xyz' does not
C7_KeyIsCatalogId ==
    IsFind =>
        /\ Resolved <=> \/ Key(call.asteroid_name.v) = Key(MOCK_ASTEROID_DATA.name.v)
                        \/ Key(call.asteroid_name.v) = MOCK_ASTEROID_DATA.neo_reference_id.v
        /\ Resolved \/ NotFound
        /\ call.asteroid_name.v \in {MockName, NameUpper, NameParens, MockId} => Resolved
        /\ call.asteroid_name.v = NameUnknown => NotFound

\* the catalog id in parentheses resolves
C7_Witness ==
    /\ Resolved
    /\ call.asteroid_name.v = <<"(">> \o MockId \o <<")">>

\* the density the route is to select for each density_value of the forms
ExpectedDensity(form) ==
    IF "density_value" \notin DOMAIN form THEN PyInt(3000)
    ELSE LET v == form.density_value.v
         IN  IF v = <<"3", "0", "0", "0">> THEN PyFloat(FromInt(3000))
             ELSE IF v = <<"2", "7", "0", "0", ".", "5">> THEN PyFloat(Nearest(27005, -1))
             ELSE IF v = <<" ", "1", "3", "0", "0">> THEN PyFloat(FromInt(1300))
             ELSE IF v = <<"-", "5">> THEN PyFloat(FromInt(-5))
             ELSE IF v = <<"0">> THEN PyFloat(FZero)
             ELSE PyInt(3000)

\* C8: the route selects the Rocky preset 3000 for an absent or unparsable
\* density_value and the parsed float for a parsable one, hands the calculator
\* that density, and returns no error on account of the density: an
\* identifier that resolves gets its report
C8_DensityFallback ==
    IsRoute =>
        /\ call.selected_density = Return(ExpectedDensity(call.form))
        /\ DEFAULT_DENSITY = PyInt(3000)
        /\ call.result.path = "computed" =>
               /\ "error" \notin DOMAIN call.result.outcome.value.json
               /\ call.result.outcome.value.json.assumed_density_kg_m3.grouped
                      = ExpectedDensity(call.form)
        /\ ("asteroid_name" \in DOMAIN call.form /\ call.form.asteroid_name = PyStr(MockName))
               => call.result.path = "computed"

C8_Witness ==
    /\ IsRoute
    /\ "density_value" \notin DOMAIN call.form
    /\ call.result.path = "computed"
    /\ call.result.outcome.value.json.assumed_density_kg_m3.grouped = PyInt(3000)

ExpectedVelocity(v) ==
    IF v = Velocity742 THEN Nearest(742, -2)
    ELSE IF v = Velocity125 THEN Nearest(125, -1)
    ELSE IF v = Velocity5 THEN FromInt(5)
    ELSE IF v = Velocity15 THEN Nearest(15, -1)
    ELSE IF v = Velocity05 THEN Nearest(5, -1)
    ELSE FZero

HasApproach(rec) ==
    "close_approach_data" \in DOMAIN rec /\ rec.close_approach_data # << >>

LastApproach(rec) == rec.close_approach_data[Len(rec.close_approach_data)]

\* C10: the outcome for a record with close approaches is the outcome for the
\* record with its last close approach alone, and a report shows the
\* velocity of the last close approach
C10_LastApproachOnly ==
    IsCalc /\ HasApproach(call.asteroid_data) =>
        /\ call.outcome
               = calculate_impact_energy(
                     WithApproaches(call.asteroid_data, <<LastApproach(call.asteroid_data)>>),
                     call.density)
        /\ Reported =>
               call.outcome.value.relative_velocity_km_s
                   = FormatFixed(ExpectedVelocity(LastApproach(call.asteroid_data)
                                                      .relative_velocity.kilometers_per_second),
                                 3, " km/s")

\* a report from a record whose first close approach has another velocity
\* than its last
C10_Witness ==
    /\ Reported
    /\ Len(call.asteroid_data.close_approach_data) = 2
    /\ call.asteroid_data.close_approach_data[1] = CloseApproach(Velocity125, Miss)
    /\ call.asteroid_data.close_approach_data[2] = CloseApproach(Velocity742, Miss)

====
